---- MODULE Spec2Model ----
(***************************************************************************)
(* A model of admin/afsfree.py: the report of free and used space on       *)
(* OpenAFS file servers.                                                   *)
(*                                                                         *)
(* Text is modelled as a sequence of one-character strings, so that        *)
(* parsing, formatting and sorting work on characters as the Python code   *)
(* does.  A float with one decimal (usedp) is held as its number of        *)
(* tenths.  A Python int that may exceed the 32 bit integers of TLC        *)
(* (the argument of humanize) is held as a numeral: its digits in radix    *)
(* Radix, least significant first, without leading zeros.                  *)
(***************************************************************************)
EXTENDS Integers, Sequences, FiniteSets, TLC

VARIABLES
    pc,          \* position of the run (or of the function under check)
    call,        \* arguments of the pure function under check
    ret,         \* its return value
    format,      \* options.format
    opt_servers, \* options.servers (<<>> when none was given)
    dns,         \* the resolver: address -> hostname, or None when it fails
    calls,       \* every external process spawned so far, with its state
    listaddrs,   \* lookup_servers: the output of vos listaddrs
    servers,     \* afsfree: the target list
    idx,         \* afsfree: the position of the loop in the target list
    results,     \* afsfree: the results dict (insertion ordered)
    stdout,      \* the lines printed
    stderr,      \* the lines written to sys.stderr
    error        \* the exception that ended the run, or None

vars == <<pc, call, ret, format, opt_servers, dns, calls, listaddrs, servers,
          idx, results, stdout, stderr, error>>

runvars == <<format, opt_servers, dns, calls, listaddrs, servers, idx,
             results, stdout, stderr, error>>

None == "None"

\* no exception
NoError == [type |-> "None", args |-> <<>>]

(***************************************************************************)
(* Bounds of the model.                                                    *)
(***************************************************************************)
MaxSmall == 7        \* calculate_used: free and total range over 0..MaxSmall
                     \* and over CalcBase - MaxSmall .. CalcBase + MaxSmall
CalcBase == 10000    \* calculate_used: the large values are around CalcBase
MaxTop == 2          \* humanize: kbytes is below (MaxTop + 1) * 1024^5

(***************************************************************************)
(* Characters and text.                                                    *)
(***************************************************************************)
\* The characters the model uses, in code point order (Python compares str
\* values code point by code point).
Alphabet ==
    << " ", "%", ".", "/", "0", "1", "2", "3", "4", "5", "6", "7", "8", "9",
       ":", "A", "C", "D", "F", "I", "K", "U", "a", "b", "c", "d", "e", "f",
       "g", "h", "i", "j", "k", "l", "m", "n", "o", "p", "q", "r", "s", "t",
       "u", "v", "w", "x", "y", "z" >>

Ord(c) == CHOOSE i \in 1..Len(Alphabet) : Alphabet[i] = c

DigitChars == <<"0", "1", "2", "3", "4", "5", "6", "7", "8", "9">>

IsDigit(c) == \E i \in 1..10 : DigitChars[i] = c

LowerChars ==
    { "a", "b", "c", "d", "e", "f", "g", "h", "i", "j", "k", "l", "m", "n", "o",
      "p", "q", "r", "s", "t", "u", "v", "w", "x", "y", "z" }

IsLower(c) == c \in LowerChars

IsSpace(c) == c = " "

\* str < str
RECURSIVE StrLess(_, _)
StrLess(s, t) ==
    IF t = <<>> THEN FALSE
    ELSE IF s = <<>> THEN TRUE
    ELSE IF s[1] # t[1] THEN Ord(s[1]) < Ord(t[1])
    ELSE StrLess(Tail(s), Tail(t))

\* s.startswith(p)
StartsWith(s, p) == Len(s) >= Len(p) /\ SubSeq(s, 1, Len(p)) = p

\* s without its first n characters
Drop(s, n) == SubSeq(s, n + 1, Len(s))

\* the length of the longest prefix of s whose characters all satisfy the
\* class (a greedy  [class]*  of re)
RECURSIVE SpanLower(_)
SpanLower(s) == IF s # <<>> /\ IsLower(s[1]) THEN 1 + SpanLower(Tail(s)) ELSE 0

RECURSIVE SpanDigit(_)
SpanDigit(s) == IF s # <<>> /\ IsDigit(s[1]) THEN 1 + SpanDigit(Tail(s)) ELSE 0

\* str.strip()
RECURSIVE LStrip(_)
LStrip(s) == IF s # <<>> /\ IsSpace(s[1]) THEN LStrip(Tail(s)) ELSE s

RECURSIVE RStrip(_)
RStrip(s) ==
    IF s # <<>> /\ IsSpace(s[Len(s)]) THEN RStrip(SubSeq(s, 1, Len(s) - 1)) ELSE s

Strip(s) == RStrip(LStrip(s))

\* int(str) of a string of decimal digits
DigitVal(c) == (CHOOSE i \in 1..10 : DigitChars[i] = c) - 1

RECURSIVE ParseInt(_)
ParseInt(s) ==
    IF s = <<>> THEN 0
    ELSE 10 * ParseInt(SubSeq(s, 1, Len(s) - 1)) + DigitVal(s[Len(s)])

\* str(int) of a non-negative int
RECURSIVE IntStr(_)
IntStr(n) ==
    IF n < 10 THEN <<DigitChars[n + 1]>>
    ELSE IntStr(n \div 10) \o <<DigitChars[(n % 10) + 1]>>

\* sep.join(parts)
RECURSIVE Join(_, _)
Join(sep, parts) ==
    IF parts = <<>> THEN <<>>
    ELSE IF Len(parts) = 1 THEN parts[1]
    ELSE parts[1] \o sep \o Join(sep, Tail(parts))

(***************************************************************************)
(* Python ints beyond 32 bits: numerals.                                   *)
(***************************************************************************)
Radix == 1024

RECURSIVE Num(_)
Num(n) == IF n = 0 THEN <<>> ELSE <<n % Radix>> \o Num(n \div Radix)

RECURSIVE NumNorm(_)
NumNorm(a) ==
    IF a # <<>> /\ a[Len(a)] = 0 THEN NumNorm(SubSeq(a, 1, Len(a) - 1)) ELSE a

\* a * k, for an int 0 <= k <= Radix
RECURSIVE NumTimesC(_, _, _)
NumTimesC(a, k, carry) ==
    IF a = <<>> THEN Num(carry)
    ELSE <<(a[1] * k + carry) % Radix>>
         \o NumTimesC(Tail(a), k, (a[1] * k + carry) \div Radix)

NumTimes(a, k) == NumNorm(NumTimesC(a, k, 0))

\* a >= b
RECURSIVE NumGE(_, _)
NumGE(a, b) ==
    IF Len(a) # Len(b) THEN Len(a) > Len(b)
    ELSE IF a = <<>> THEN TRUE
    ELSE IF a[Len(a)] # b[Len(b)] THEN a[Len(a)] > b[Len(b)]
    ELSE NumGE(SubSeq(a, 1, Len(a) - 1), SubSeq(b, 1, Len(b) - 1))

\* a - b, for a >= b
RECURSIVE NumSubB(_, _, _)
NumSubB(a, b, borrow) ==
    IF a = <<>> THEN <<>>
    ELSE LET bd == IF b = <<>> THEN 0 ELSE b[1]
             d  == a[1] - bd - borrow
         IN  <<d % Radix>>
             \o NumSubB(Tail(a), IF b = <<>> THEN <<>> ELSE Tail(b),
                        IF d < 0 THEN 1 ELSE 0)

NumSub(a, b) == NumNorm(NumSubB(a, b, 0))

\* <<a // d, a % d>>, the quotient an int, for d > 0
RECURSIVE NumDivMod(_, _)
NumDivMod(a, d) ==
    IF ~NumGE(a, d) THEN <<0, a>>
    ELSE LET h == NumDivMod(a, NumTimes(d, 2))
         IN  IF NumGE(h[2], d) THEN <<2 * h[1] + 1, NumSub(h[2], d)>>
             ELSE <<2 * h[1], h[2]>>

\* '{:.0f}'.format(a / d): the quotient rounded to the nearest integer, a tie
\* to the even one.  a / d is exact in a double: d is a power of two and a is
\* below 2^53 within the bounds of the model.
RoundDiv(a, d) ==
    LET qr == NumDivMod(a, d)
        twice == NumTimes(qr[2], 2)
    IN  IF twice = d THEN qr[1] + (qr[1] % 2)
        ELSE IF NumGE(twice, d) THEN qr[1] + 1
        ELSE qr[1]

(***************************************************************************)
(* humanize                                                                *)
(***************************************************************************)
KiB == Num(1024)
MiB == NumTimes(KiB, 1024)
GiB == NumTimes(MiB, 1024)
TiB == NumTimes(GiB, 1024)

\* humanize with > where the code has >= (a faulty variant: C9 fails for it)
humanize_gt(kbytes) ==
    IF kbytes # TiB /\ NumGE(kbytes, TiB) THEN IntStr(RoundDiv(kbytes, TiB)) \o <<"P">>
    ELSE IF kbytes # GiB /\ NumGE(kbytes, GiB) THEN IntStr(RoundDiv(kbytes, GiB)) \o <<"T">>
    ELSE IF kbytes # MiB /\ NumGE(kbytes, MiB) THEN IntStr(RoundDiv(kbytes, MiB)) \o <<"G">>
    ELSE IF kbytes # KiB /\ NumGE(kbytes, KiB) THEN IntStr(RoundDiv(kbytes, KiB)) \o <<"M">>
    ELSE IntStr(RoundDiv(kbytes, Num(1))) \o <<"K">>

humanize(kbytes) ==
    IF NumGE(kbytes, TiB) THEN IntStr(RoundDiv(kbytes, TiB)) \o <<"P">>
    ELSE IF NumGE(kbytes, GiB) THEN IntStr(RoundDiv(kbytes, GiB)) \o <<"T">>
    ELSE IF NumGE(kbytes, MiB) THEN IntStr(RoundDiv(kbytes, MiB)) \o <<"G">>
    ELSE IF NumGE(kbytes, KiB) THEN IntStr(RoundDiv(kbytes, KiB)) \o <<"M">>
    ELSE IntStr(RoundDiv(kbytes, Num(1))) \o <<"K">>

(***************************************************************************)
(* calculate_used                                                          *)
(***************************************************************************)
\* round((used / total) * 100.0, 1), in tenths.  Python rounds the double it
\* is given; when used / total * 100 lies exactly half way between two
\* tenths, the double may lie on either side, and tie (0 or 1) is the side.
RoundTenths(used, total, tie) ==
    LET q == (1000 * used) \div total
        r == (1000 * used) % total
    IN  IF 2 * r > total THEN q + 1
        ELSE IF 2 * r = total THEN q + tie
        ELSE q

calculate_used(free, total, tie) ==
    LET used   == IF total > free THEN total - free ELSE total
        usedp0 == IF total > 0 THEN RoundTenths(used, total, tie) ELSE 1000
        usedp1 == IF usedp0 < 1 THEN 0 ELSE usedp0
        usedp  == IF usedp1 > 1000 THEN 1000 ELSE usedp1
    IN  <<used, usedp>>

(***************************************************************************)
(* The state of a run that has not started; the specifications of the pure *)
(* functions leave it alone.                                               *)
(***************************************************************************)
RunIdle ==
    /\ format = "text"
    /\ opt_servers = <<>>
    /\ dns = <<>>
    /\ calls = <<>>
    /\ listaddrs = <<>>
    /\ servers = <<>>
    /\ idx = 0
    /\ results = <<>>
    /\ stdout = <<>>
    /\ stderr = <<>>
    /\ error = NoError

(***************************************************************************)
(* SpecCalc: calculate_used on every pair of the bounded values.           *)
(***************************************************************************)
CalcVals == (0..MaxSmall) \cup ((CalcBase - MaxSmall)..(CalcBase + MaxSmall))

InitCalc ==
    /\ pc = "call"
    /\ call \in [free : CalcVals, total : CalcVals]
    /\ ret = None
    /\ RunIdle

CalculateUsed ==
    /\ pc = "call"
    /\ \E tie \in {0, 1} :
          ret' = calculate_used(call.free, call.total, tie)
    /\ pc' = "ret"
    /\ UNCHANGED <<call, runvars>>

NextCalc == CalculateUsed

SpecCalc == InitCalc /\ [][NextCalc]_vars

(***************************************************************************)
(* SpecHumanize: humanize on every bounded numeral.                        *)
(***************************************************************************)
\* the digits the numerals are made of: zero, one, the half and the top
HumanizeDigits == {0, 1, 512, Radix - 1}

\* one digit for each unit of the ladder K, M, G, T, P and a top digit, which
\* keeps kbytes below 2^53
HumanizeInputs ==
    { NumNorm(a \o <<top>>) : a \in [1..5 -> HumanizeDigits], top \in 0..MaxTop }

InitHumanize ==
    /\ pc = "call"
    /\ call \in HumanizeInputs
    /\ ret = None
    /\ RunIdle

Humanize ==
    /\ pc = "call"
    /\ ret' = humanize(call)
    /\ pc' = "ret"
    /\ UNCHANGED <<call, runvars>>

NextHumanize == Humanize

SpecHumanize == InitHumanize /\ [][NextHumanize]_vars

(***************************************************************************)
(* dicts: a Python dict keeps its keys in insertion order, and is held as  *)
(* the sequence of its <<key, value>> items.                               *)
(***************************************************************************)
DictKeys(d) == { d[i][1] : i \in 1..Len(d) }

DictGet(d, k) == d[CHOOSE i \in 1..Len(d) : d[i][1] = k][2]

\* d[k] = v that keeps the value of a key already present (a faulty variant:
\* C6 fails for it)
DictSet_keep(d, k, v) ==
    IF k \in DictKeys(d) THEN d ELSE Append(d, <<k, v>>)

\* d[k] = v
DictSet(d, k, v) ==
    IF k \in DictKeys(d)
    THEN [i \in 1..Len(d) |-> IF d[i][1] = k THEN <<k, v>> ELSE d[i]]
    ELSE Append(d, <<k, v>>)

(***************************************************************************)
(* get_partinfo                                                            *)
(***************************************************************************)
LitFree ==
    <<"F", "r", "e", "e", " ", "s", "p", "a", "c", "e", " ", "o", "n", " ",
      "p", "a", "r", "t", "i", "t", "i", "o", "n", " ", "/", "v", "i", "c",
      "e", "p">>

LitColon == <<":", " ">>

LitBlocks ==
    <<" ", "K", " ", "b", "l", "o", "c", "k", "s", " ", "o", "u", "t", " ",
      "o", "f", " ", "t", "o", "t", "a", "l", " ">>

\* re.match(r'Free space on partition /vicep([a-z]+): (\d+) K blocks out of
\* total (\d+)', partition): <<group 1, group 2, group 3>>, or <<>> when the
\* line does not match.  The match is anchored at the start of the line only.
\* Each greedy class is followed by a character outside it, so the longest
\* span is the only one that can match.
MatchPartinfo(partition) ==
    IF ~StartsWith(partition, LitFree) THEN <<>>
    ELSE LET s1 == Drop(partition, Len(LitFree))
             n1 == SpanLower(s1)
             s2 == Drop(s1, n1)
         IN  IF n1 = 0 \/ ~StartsWith(s2, LitColon) THEN <<>>
             ELSE LET s3 == Drop(s2, Len(LitColon))
                      n2 == SpanDigit(s3)
                      s4 == Drop(s3, n2)
                  IN  IF n2 = 0 \/ ~StartsWith(s4, LitBlocks) THEN <<>>
                      ELSE LET s5 == Drop(s4, Len(LitBlocks))
                               n3 == SpanDigit(s5)
                           IN  IF n3 = 0 THEN <<>>
                               ELSE <<SubSeq(s1, 1, n1), SubSeq(s3, 1, n2),
                                      SubSeq(s5, 1, n3)>>

\* the loop of get_partinfo over the output of vos partinfo
RECURSIVE PartinfoLoop(_, _, _)
PartinfoLoop(output, parts, tie) ==
    IF output = <<>> THEN parts
    ELSE LET m == MatchPartinfo(output[1])
         IN  IF m = <<>> THEN PartinfoLoop(Tail(output), parts, tie)
             ELSE LET partid == m[1]
                      free   == ParseInt(m[2])
                      size   == ParseInt(m[3])
                      cu     == calculate_used(free, size, tie)
                  IN  PartinfoLoop(Tail(output),
                                   DictSet(parts, partid,
                                           [size |-> size, used |-> cu[1],
                                            free |-> free, usedp |-> cu[2]]),
                                   tie)

\* get_partinfo(cell, server), given the output of its vos partinfo
get_partinfo(output, tie) == PartinfoLoop(output, <<>>, tie)

(***************************************************************************)
(* SpecPartinfo: get_partinfo on every bounded output of vos partinfo.     *)
(***************************************************************************)
MaxLines == 3        \* the output of vos partinfo has at most MaxLines lines

PartLine(partid, free, size) ==
    LitFree \o partid \o LitColon \o free \o LitBlocks \o size

PartinfoLines ==
    { PartLine(<<"a">>, <<"6", "0", "0">>, <<"1", "0", "0", "0">>),
      PartLine(<<"a">>, <<"0">>, <<"1", "0", "0", "0">>),
      PartLine(<<"b">>, <<"0", "5", "1", "2">>, <<"2", "0", "4", "8">>),
      PartLine(<<"a", "a">>, <<"5">>, <<"5">>),
      \* matches: the pattern is not anchored at the end of the line
      PartLine(<<"b">>, <<"1">>, <<"4">>) \o <<" ", "f", "u", "l", "l">>,
      \* do not match
      <<>>,
      <<" ">> \o PartLine(<<"a">>, <<"1">>, <<"2">>),
      PartLine(<<"A">>, <<"1">>, <<"2">>),
      PartLine(<<"b">>, <<"1">>, <<>>) }

PartinfoOutputs ==
    UNION { [1..n -> PartinfoLines] : n \in 0..MaxLines }

InitPartinfo ==
    /\ pc = "call"
    /\ call \in PartinfoOutputs
    /\ ret = None
    /\ RunIdle

GetPartinfo ==
    /\ pc = "call"
    /\ \E tie \in {0, 1} : ret' = get_partinfo(call, tie)
    /\ pc' = "ret"
    /\ UNCHANGED <<call, runvars>>

NextPartinfo == GetPartinfo

SpecPartinfo == InitPartinfo /\ [][NextPartinfo]_vars

(***************************************************************************)
(* vos: the external process and what it writes                            *)
(***************************************************************************)
LitUnauth ==
    <<"r", "u", "n", "n", "i", "n", "g", " ", "u", "n", "a", "u", "t", "h",
      "e", "n", "t", "i", "c", "a", "t", "e", "d">>

LitErrorTag == <<"E", "R", "R", "O", "R", ":", " ">>

LitWarnTag == <<"W", "A", "R", "N", "I", "N", "G", ":", " ">>

\* sub in line
Contains(line, sub) ==
    \E i \in 1..(Len(line) - Len(sub) + 1) :
        SubSeq(line, i, i + Len(sub) - 1) = sub

\* the lines vos writes to sys.stderr for the stderr of the process: every
\* line but the notice of an unauthenticated run
RECURSIVE VosErrors(_)
VosErrors(errors) ==
    IF errors = <<>> THEN <<>>
    ELSE IF ~Contains(errors[1], LitUnauth)
         THEN <<LitErrorTag \o errors[1]>> \o VosErrors(Tail(errors))
         ELSE VosErrors(Tail(errors))

\* subprocess.Popen: the process is in flight
Popen(command, server) ==
    [cmd |-> command, server |-> server, state |-> "running", out |-> <<>>]

\* the last process spawned has ended with this state and this stdout
Ended(cs, state, out) ==
    [cs EXCEPT ![Len(cs)] = [@ EXCEPT !.state = state, !.out = out]]

(***************************************************************************)
(* lookup_hostname and lookup_servers                                      *)
(***************************************************************************)
LitUUID == <<"U", "U", "I", "D", ":">>

LitFailed ==
    <<"F", "a", "i", "l", "e", "d", " ", "t", "o", " ", "r", "e", "s", "o",
      "l", "v", "e", " ">>

LitSep == <<":", " ">>

LitUnknownHost ==
    <<"U", "n", "k", "n", "o", "w", "n", " ", "h", "o", "s", "t">>

LitUnexpected ==
    <<"U", "n", "e", "x", "p", "e", "c", "t", "e", "d", " ", "v", "o", "s",
      " ", "l", "i", "s", "t", "a", "d", "d", "r", "s", " ", "o", "u", "t",
      "p", "u", "t", " ", "o", "n", " ", "l", "i", "n", "e", " ", "{", "1",
      "}", ":", " ", "{", "2", "}">>

\* lookup_hostname(address), given the answers of the resolver: the hostname,
\* or the empty text for None (the caller tests its truth only) with the
\* warning written
lookup_hostname(address, answers) ==
    IF answers[address] = <<>>
    THEN [hostname |-> <<>>,
          warnings |-> <<LitWarnTag \o LitFailed \o address \o LitSep
                         \o LitUnknownHost>>]
    ELSE [hostname |-> answers[address], warnings |-> <<>>]

\* the loop of lookup_servers that skips a line outside any group instead of
\* raising (a faulty variant: C4 fails for it)
RECURSIVE ListaddrsLoop_skip(_, _, _, _)
ListaddrsLoop_skip(lines, i, uuid, file_servers) ==
    IF i >= Len(lines) THEN [raised |-> FALSE, file_servers |-> file_servers]
    ELSE LET line == lines[i + 1]
         IN  IF line = <<>>
             THEN ListaddrsLoop_skip(lines, i + 1, <<>>, file_servers)
             ELSE IF StartsWith(line, LitUUID)
             THEN LET u == Strip(Drop(line, Len(LitUUID)))
                  IN  ListaddrsLoop_skip(lines, i + 1, u,
                          IF u \in DictKeys(file_servers) THEN file_servers
                          ELSE Append(file_servers, <<u, <<>>>>))
             ELSE IF uuid = <<>>
             THEN ListaddrsLoop_skip(lines, i + 1, uuid, file_servers)
             ELSE ListaddrsLoop_skip(lines, i + 1, uuid,
                      DictSet(file_servers, uuid,
                              Append(DictGet(file_servers, uuid), line)))

\* the loop of lookup_servers over the output of vos listaddrs, from line i
\* (counted from 0) on.  uuid is the empty text for None: the code tests its
\* truth only.  line.replace('UUID:', '', 1) removes the prefix the line was
\* found to start with.
RECURSIVE ListaddrsLoop(_, _, _, _)
ListaddrsLoop(lines, i, uuid, file_servers) ==
    IF i >= Len(lines) THEN [raised |-> FALSE, file_servers |-> file_servers]
    ELSE LET line == lines[i + 1]
         IN  IF line = <<>>
             THEN ListaddrsLoop(lines, i + 1, <<>>, file_servers)
             ELSE IF StartsWith(line, LitUUID)
             THEN LET u == Strip(Drop(line, Len(LitUUID)))
                  IN  ListaddrsLoop(lines, i + 1, u,
                          IF u \in DictKeys(file_servers) THEN file_servers
                          ELSE Append(file_servers, <<u, <<>>>>))
             ELSE IF uuid = <<>>
             THEN [raised |-> TRUE, args |-> <<LitUnexpected, i, line>>]
             ELSE ListaddrsLoop(lines, i + 1, uuid,
                      DictSet(file_servers, uuid,
                              Append(DictGet(file_servers, uuid), line)))

\* the inner loop of the resolution: the addresses of one server in order,
\* up to the first that has a hostname
RECURSIVE TryAddresses(_, _)
TryAddresses(addresses, answers) ==
    IF addresses = <<>>
    THEN [found |-> <<>>, looked |-> {}, warnings |-> <<>>]
    ELSE LET r == lookup_hostname(addresses[1], answers)
         IN  IF r.hostname # <<>>
             THEN [found |-> <<r.hostname>>, looked |-> {addresses[1]},
                   warnings |-> <<>>]
             ELSE LET rest == TryAddresses(Tail(addresses), answers)
                  IN  [found |-> rest.found,
                       looked |-> {addresses[1]} \cup rest.looked,
                       warnings |-> r.warnings \o rest.warnings]

\* the outer loop: the set of the hostnames found, the addresses looked up
\* and the warnings written
RECURSIVE ResolveServers(_, _)
ResolveServers(file_servers, answers) ==
    IF file_servers = <<>>
    THEN [servers |-> {}, looked |-> {}, warnings |-> <<>>]
    ELSE LET one  == TryAddresses(file_servers[1][2], answers)
             rest == ResolveServers(Tail(file_servers), answers)
         IN  [servers |-> {one.found[k] : k \in 1..Len(one.found)}
                          \cup rest.servers,
              looked |-> one.looked \cup rest.looked,
              warnings |-> one.warnings \o rest.warnings]

\* list(servers): the elements of a set in any order
ListsOf(S) ==
    { l \in [1..Cardinality(S) -> S] :
        \A i, j \in 1..Cardinality(S) : i # j => l[i] # l[j] }

(***************************************************************************)
(* flatten, make_template and the three printers                           *)
(***************************************************************************)
\* the rows of one server
RECURSIVE FlattenParts(_, _)
FlattenParts(host, parts) ==
    IF parts = <<>> THEN <<>>
    ELSE LET part == parts[1][1]
             info == parts[1][2]
         IN  <<<<host, part, info.size, info.used, info.free, info.usedp>>>>
             \o FlattenParts(host, Tail(parts))

RECURSIVE flatten(_)
flatten(results_) ==
    IF results_ = <<>> THEN <<>>
    ELSE FlattenParts(results_[1][1], results_[1][2]) \o flatten(Tail(results_))

\* tuple < tuple for two rows: the first field that differs decides
RowLess(r, s) ==
    IF r[1] # s[1] THEN StrLess(r[1], s[1])
    ELSE IF r[2] # s[2] THEN StrLess(r[2], s[2])
    ELSE IF r[3] # s[3] THEN r[3] < s[3]
    ELSE IF r[4] # s[4] THEN r[4] < s[4]
    ELSE IF r[5] # s[5] THEN r[5] < s[5]
    ELSE r[6] < s[6]

\* row put into a sorted table, after the rows that are not greater
RECURSIVE InsertRow(_, _)
InsertRow(table, row) ==
    IF table = <<>> THEN <<row>>
    ELSE IF RowLess(row, table[1]) THEN <<row>> \o table
    ELSE <<table[1]>> \o InsertRow(Tail(table), row)

RECURSIVE SortLoop(_, _)
SortLoop(table, acc) ==
    IF table = <<>> THEN acc
    ELSE SortLoop(Tail(table), InsertRow(acc, table[1]))

\* sorted(table) that leaves the table as it is (a faulty variant: C10 fails
\* for it)
sorted_not(table) == table

\* sorted(table): ascending and stable
sorted(table) == SortLoop(table, <<>>)

\* str(float) of a float with one decimal, given in tenths
FloatStr(tenths) ==
    IntStr(tenths \div 10) \o <<".">> \o <<DigitChars[(tenths % 10) + 1]>>

\* '{:.0f}%'.format(usedp): the nearest integer, a tie (exact in a double)
\* to the even one
PercentStr(tenths) ==
    LET q == tenths \div 10
        r == tenths % 10
    IN  IntStr(IF r > 5 \/ (r = 5 /\ q % 2 = 1) THEN q + 1 ELSE q) \o <<"%">>

RECURSIVE Spaces(_)
Spaces(n) == IF n <= 0 THEN <<>> ELSE <<" ">> \o Spaces(n - 1)

Spacer == <<" ", " ", " ">>

Header ==
    << <<"h", "o", "s", "t">>, <<"p", "a", "r", "t">>, <<"s", "i", "z", "e">>,
       <<"u", "s", "e", "d">>, <<"f", "r", "e", "e">>,
       <<"u", "s", "e", "d", "%">> >>

Max(S) == CHOOSE x \in S : \A y \in S : y <= x

\* make_template(text_table): the width of each of the six columns
make_template(text_table) ==
    [i \in 1..6 |-> Max({ Len(text_table[k][i]) : k \in 1..Len(text_table) })]

\* template.format(*row): the first column left aligned, the others right
\* aligned, three spaces between the columns
FormatRow(template, row) ==
    Join(Spacer,
         [i \in 1..6 |->
             IF i = 1 THEN row[i] \o Spaces(template[i] - Len(row[i]))
             ELSE Spaces(template[i] - Len(row[i])) \o row[i]])

\* print_text(results): the lines printed
print_text(results_) ==
    LET rows  == sorted(flatten(results_))
        table == <<Header>> \o
                 [k \in 1..Len(rows) |->
                     <<rows[k][1], rows[k][2], humanize(Num(rows[k][3])),
                       humanize(Num(rows[k][4])), humanize(Num(rows[k][5])),
                       PercentStr(rows[k][6])>>]
        template == make_template(table)
    IN  [k \in 1..Len(table) |-> FormatRow(template, table[k])]

\* print_plain(results): the lines printed
print_plain(results_) ==
    LET rows == sorted(flatten(results_))
    IN  [k \in 1..Len(rows) |->
            Join(<<" ">>,
                 <<rows[k][1], rows[k][2], IntStr(rows[k][3]),
                   IntStr(rows[k][4]), IntStr(rows[k][5]),
                   FloatStr(rows[k][6])>>)]

\* json.dumps of a str made of plain characters
JsonStr(s) == <<"\"">> \o s \o <<"\"">>

JsonKey(s) == JsonStr(s) \o <<":", " ">>

\* json.dumps of the dict of one partition, its keys in the order
\* get_partinfo gives them
JsonInfo(info) ==
    <<"{">> \o
    Join(<<",", " ">>,
         << JsonKey(<<"s", "i", "z", "e">>) \o IntStr(info.size),
            JsonKey(<<"u", "s", "e", "d">>) \o IntStr(info.used),
            JsonKey(<<"f", "r", "e", "e">>) \o IntStr(info.free),
            JsonKey(<<"u", "s", "e", "d", "p">>) \o FloatStr(info.usedp) >>)
    \o <<"}">>

\* json.dumps of the dict of one server, in the order of its items
JsonParts(parts) ==
    <<"{">> \o
    Join(<<",", " ">>,
         [k \in 1..Len(parts) |-> JsonKey(parts[k][1]) \o JsonInfo(parts[k][2])])
    \o <<"}">>

\* print_json(results): the line printed; json.dumps writes the items of a
\* dict in the order the dict holds them
print_json(results_) ==
    << <<"{">> \o
       Join(<<",", " ">>,
            [k \in 1..Len(results_) |->
                JsonKey(results_[k][1]) \o JsonParts(results_[k][2])])
       \o <<"}">> >>

\* main: the printer that options.format selects
main_print(format_, results_) ==
    IF format_ = "text" THEN print_text(results_)
    ELSE IF format_ = "plain" THEN print_plain(results_)
    ELSE print_json(results_)

(***************************************************************************)
(* Spec: a run of main, from the options to the lines printed.             *)
(*                                                                         *)
(* pc: "main" (afsfree entered), "listaddrs" and "partinfo" (vos waits in  *)
(* proc.communicate), "lookup" (lookup_servers holds the output of vos     *)
(* listaddrs), "loop" (the head of the loop of afsfree), "done" (main has  *)
(* returned), "aborted" (an exception has ended the run).                  *)
(***************************************************************************)
MaxServers == 2      \* options.servers names at most MaxServers servers
MaxAddrLines == 4    \* the output of vos listaddrs has at most MaxAddrLines lines

H1 == <<"f", "s", "2">>

H2 == <<"f", "s", "1", "0">>

A1 == <<"1", "0", ".", "0", ".", "0", ".", "1">>

A2 == <<"1", "0", ".", "0", ".", "0", ".", "2">>

U0 == <<"U", "U", "I", "D", ":">>

U1 == <<"U", "U", "I", "D", ":", " ", "0", "1">>

U2 == <<"U", "U", "I", "D", ":", "0", "2", " ">>

LitNotice ==
    <<"v", "o", "s", ":", " ", "r", "u", "n", "n", "i", "n", "g", " ", "u",
      "n", "a", "u", "t", "h", "e", "n", "t", "i", "c", "a", "t", "e", "d">>

LitCouldNot ==
    <<"C", "o", "u", "l", "d", " ", "n", "o", "t", " ", "f", "e", "t", "c",
      "h", " ", "t", "h", "e", " ", "l", "i", "s", "t", " ", "o", "f", " ",
      "p", "a", "r", "t", "i", "t", "i", "o", "n", "s">>

Hostnames == {H1, H2}

Addresses == {A1, A2}

Formats == {"text", "plain", "json"}

\* what the resolver may answer: the empty text when gethostbyaddr raises
DnsAnswers ==
    { [a \in Addresses |-> IF a = A1 THEN x ELSE y] :
        x \in {<<>>, H1}, y \in {<<>>, H1, H2} }

\* the lines vos listaddrs -printuuid -noresolve may print: a blank line, a
\* UUID line (without a uuid, with one, with one between other blanks) and
\* an address
ListaddrsLines == {<<>>, U0, U1, U2, A1, A2}

ListaddrsResults ==
    { [out |-> o, err |-> <<>>] :
        o \in UNION { [1..n -> ListaddrsLines] : n \in 0..MaxAddrLines } }
    \cup { [out |-> <<>>, err |-> <<LitNotice, LitCouldNot>>] }

\* what vos partinfo may print for a server, and its exit status
PartinfoResults ==
    { [out |-> << PartLine(<<"a">>, <<"6", "0", "0">>, <<"1", "0", "0", "0">>) >>,
       err |-> <<LitNotice>>, rc |-> 0],
      [out |-> << PartLine(<<"b">>, <<"9", "9", "9", "3">>, <<"9", "9", "9", "8">>),
                  <<>>,
                  PartLine(<<"a", "b">>, <<"2", "0", "4", "8">>,
                           <<"1", "0", "4", "8", "5", "7", "6">>) >>,
       err |-> <<>>, rc |-> 0],
      [out |-> <<>>, err |-> <<LitNotice, LitCouldNot>>, rc |-> 1] }

Init ==
    /\ pc = "main"
    /\ call = None
    /\ ret = None
    /\ format \in Formats
    /\ opt_servers \in UNION { [1..n -> Hostnames] : n \in 0..MaxServers }
    /\ dns = [a \in {} |-> <<>>]
    /\ calls = <<>>
    /\ listaddrs = <<>>
    /\ servers = <<>>
    /\ idx = 0
    /\ results = <<>>
    /\ stdout = <<>>
    /\ stderr = <<>>
    /\ error = NoError

\* afsfree, no server given: lookup_servers runs vos listaddrs
SpawnListaddrs ==
    /\ pc = "main"
    /\ opt_servers = <<>>
    /\ calls' = Append(calls, Popen("listaddrs", None))
    /\ pc' = "listaddrs"
    /\ UNCHANGED <<call, ret, format, opt_servers, dns, listaddrs, servers,
                   idx, results, stdout, stderr, error>>

\* afsfree, servers given: they are the target list
ExplicitServers ==
    /\ pc = "main"
    /\ opt_servers # <<>>
    /\ servers' = opt_servers
    /\ idx' = 1
    /\ pc' = "loop"
    /\ UNCHANGED <<call, ret, format, opt_servers, dns, calls, listaddrs,
                   results, stdout, stderr, error>>

\* vos listaddrs ends: vos reports its stderr and returns its stdout
ListaddrsExit ==
    /\ pc = "listaddrs"
    /\ \E r \in ListaddrsResults :
          /\ calls' = Ended(calls, "ok", r.out)
          /\ stderr' = stderr \o VosErrors(r.err)
          /\ listaddrs' = r.out
    /\ pc' = "lookup"
    /\ UNCHANGED <<call, ret, format, opt_servers, dns, servers, idx, results,
                   stdout, error>>

\* communicate, or the decoding of what it returns, raises: nothing catches
\* the exception
VosRaises ==
    /\ pc \in {"listaddrs", "partinfo"}
    /\ calls' = Ended(calls, "raised", <<>>)
    /\ error' = [type |-> "UnicodeDecodeError", args |-> <<>>]
    /\ pc' = "aborted"
    /\ UNCHANGED <<call, ret, format, opt_servers, dns, listaddrs, servers,
                   idx, results, stdout, stderr>>

\* lookup_servers raises ValueError on a line outside any group
LookupServersRaises ==
    /\ pc = "lookup"
    /\ LET p == ListaddrsLoop(listaddrs, 0, <<>>, <<>>)
       IN  /\ p.raised
           /\ error' = [type |-> "ValueError", args |-> p.args]
    /\ pc' = "aborted"
    /\ UNCHANGED <<call, ret, format, opt_servers, dns, calls, listaddrs,
                   servers, idx, results, stdout, stderr>>

\* lookup_servers resolves the servers and returns them, in the order the
\* set gives them
LookupServersReturns ==
    /\ pc = "lookup"
    /\ LET p == ListaddrsLoop(listaddrs, 0, <<>>, <<>>)
       IN  /\ ~p.raised
           /\ \E answers \in DnsAnswers :
                 LET r == ResolveServers(p.file_servers, answers)
                 IN  /\ dns' = [a \in r.looked |-> answers[a]]
                     /\ stderr' = stderr \o r.warnings
                     /\ servers' \in ListsOf(r.servers)
    /\ listaddrs' = <<>>
    /\ idx' = 1
    /\ pc' = "loop"
    /\ UNCHANGED <<call, ret, format, opt_servers, calls, results, stdout,
                   error>>

\* vos partinfo spawned and not waited for (a faulty variant: C8 fails for
\* it)
SpawnPartinfo_nowait ==
    /\ pc = "loop"
    /\ idx <= Len(servers)
    /\ calls' = Append(calls, Popen("partinfo", servers[idx]))
    /\ results' = DictSet(results, servers[idx], <<>>)
    /\ idx' = idx + 1
    /\ UNCHANGED <<pc, call, ret, format, opt_servers, dns, listaddrs,
                   servers, stdout, stderr, error>>

\* the loop of afsfree: get_partinfo runs vos partinfo for the next server
SpawnPartinfo ==
    /\ pc = "loop"
    /\ idx <= Len(servers)
    /\ calls' = Append(calls, Popen("partinfo", servers[idx]))
    /\ pc' = "partinfo"
    /\ UNCHANGED <<call, ret, format, opt_servers, dns, listaddrs, servers,
                   idx, results, stdout, stderr, error>>

\* vos partinfo ends: vos reports its stderr, get_partinfo parses its stdout
\* and afsfree stores the partitions of the server
PartinfoExit ==
    /\ pc = "partinfo"
    /\ \E r \in PartinfoResults, tie \in {0, 1} :
          /\ calls' = Ended(calls, IF r.rc = 0 THEN "ok" ELSE "failed", r.out)
          /\ stderr' = stderr \o VosErrors(r.err)
          /\ results' = DictSet(results, servers[idx], get_partinfo(r.out, tie))
    /\ idx' = idx + 1
    /\ pc' = "loop"
    /\ UNCHANGED <<call, ret, format, opt_servers, dns, listaddrs, servers,
                   stdout, error>>

\* afsfree returns and main prints the results
Render ==
    /\ pc = "loop"
    /\ idx > Len(servers)
    /\ stdout' = main_print(format, results)
    /\ pc' = "done"
    /\ UNCHANGED <<call, ret, format, opt_servers, dns, calls, listaddrs,
                   servers, idx, results, stderr, error>>

Next ==
    \/ SpawnListaddrs
    \/ ExplicitServers
    \/ ListaddrsExit
    \/ VosRaises
    \/ LookupServersRaises
    \/ LookupServersReturns
    \/ SpawnPartinfo
    \/ PartinfoExit
    \/ Render

Spec == Init /\ [][Next]_vars

(***************************************************************************)
(* Claims about calculate_used, checked under SpecCalc.                    *)
(***************************************************************************)
\* C1 (as claimed): calculate_used returns used = size - free when
\* size >= free (0 when size = free) and used = size when free > size, and
\* a usedPercent within [0, 100].
C1_UsedIsSizeMinusFree ==
    pc = "ret" =>
        /\ (call.total >= call.free => ret[1] = call.total - call.free)
        /\ (call.free > call.total => ret[1] = call.total)
        /\ 0 <= ret[2] /\ ret[2] <= 1000

\* C2 (as claimed): when the exact percentage 100 * used / size lies
\* strictly between 0.0 and 0.1, calculate_used returns usedPercent 0.0;
\* and usedPercent never exceeds 100.0.
C2_BelowTenthIsZero ==
    pc = "ret" =>
        /\ (call.total > 0 /\ 0 < 1000 * ret[1] /\ 1000 * ret[1] < call.total
               => ret[2] = 0)
        /\ ret[2] <= 1000

(***************************************************************************)
(* Claims about get_partinfo, checked under SpecPartinfo.                  *)
(***************************************************************************)
\* the lines of an output of vos partinfo that match the grammar
MatchingLines(out) == { i \in 1..Len(out) : MatchPartinfo(out[i]) # <<>> }

\* the last matching line of out that names partition partid
LastLineOf(out, partid) ==
    CHOOSE i \in MatchingLines(out) :
        /\ MatchPartinfo(out[i])[1] = partid
        /\ \A j \in MatchingLines(out) :
              MatchPartinfo(out[j])[1] = partid => j <= i

\* C6: get_partinfo returns exactly one record per distinct partition id of
\* the matching lines, with the free and size of the last matching line of
\* that id; the lines that do not match change nothing.
C6_LastMatchingLineWins ==
    pc = "ret" =>
        /\ \A i, j \in 1..Len(ret) : i # j => ret[i][1] # ret[j][1]
        /\ DictKeys(ret) = { MatchPartinfo(call[i])[1] : i \in MatchingLines(call) }
        /\ \A k \in 1..Len(ret) :
              LET m == MatchPartinfo(call[LastLineOf(call, ret[k][1])])
              IN  /\ ret[k][2].free = ParseInt(m[2])
                  /\ ret[k][2].size = ParseInt(m[3])

\* C6 witness: an output with two matching lines of one partition that differ
\* in free, and a line that does not match, has been parsed.
C6_Witness ==
    /\ pc = "ret"
    /\ Len(ret) = 1
    /\ \E i, j \in MatchingLines(call) :
          /\ i < j
          /\ MatchPartinfo(call[i])[1] = MatchPartinfo(call[j])[1]
          /\ MatchPartinfo(call[i])[2] # MatchPartinfo(call[j])[2]
    /\ \E i \in 1..Len(call) : i \notin MatchingLines(call)

(***************************************************************************)
(* Claims about humanize, checked under SpecHumanize.                      *)
(***************************************************************************)
\* a + b
RECURSIVE NumAddC(_, _, _)
NumAddC(a, b, carry) ==
    IF a = <<>> /\ b = <<>> THEN Num(carry)
    ELSE LET ad == IF a = <<>> THEN 0 ELSE a[1]
             bd == IF b = <<>> THEN 0 ELSE b[1]
         IN  <<(ad + bd + carry) % Radix>>
             \o NumAddC(IF a = <<>> THEN <<>> ELSE Tail(a),
                        IF b = <<>> THEN <<>> ELSE Tail(b),
                        (ad + bd + carry) \div Radix)

NumAdd(a, b) == NumNorm(NumAddC(a, b, 0))

\* the ladder of units, each 1024 times the one before
Ladder == <<"K", "M", "G", "T", "P">>

\* 1024^k KiB, the size of unit k + 1 of the ladder
LadderSize(k) == [i \in 1..(k + 1) |-> IF i = k + 1 THEN 1 ELSE 0]

\* the largest unit in which kbytes scales to at least 1 (K when there is none)
LadderUnit(kbytes) ==
    IF \E k \in 0..4 : NumGE(kbytes, LadderSize(k))
    THEN CHOOSE k \in 0..4 :
            /\ NumGE(kbytes, LadderSize(k))
            /\ \A j \in 0..4 : NumGE(kbytes, LadderSize(j)) => j <= k
    ELSE 0

\* C9: humanize picks the largest unit of the ladder in which the value is at
\* least 1 and prints the scaled value with no decimals (the nearest integer):
\* 0 -> 0K, 1024 -> 1M, 1048576 -> 1G, 1073741824 -> 1T, 1099511627776 -> 1P,
\* 1023 -> 1023K.
C9_HumanizeLadder ==
    pc = "ret" =>
        LET k    == LadderUnit(call)
            unit == LadderSize(k)
            q    == ParseInt(SubSeq(ret, 1, Len(ret) - 1))
            qd2  == NumTimes(NumTimes(unit, q), 2)
            n2   == NumTimes(call, 2)
        IN  /\ Len(ret) >= 2
            /\ ret[Len(ret)] = Ladder[k + 1]
            /\ \A i \in 1..(Len(ret) - 1) : IsDigit(ret[i])
            /\ ret = IntStr(q) \o <<Ladder[k + 1]>>
            /\ NumGE(NumAdd(n2, unit), qd2)
            /\ NumGE(NumAdd(qd2, unit), n2)
            /\ (call = <<>> => ret = <<"0", "K">>)
            /\ (call = <<1023>> => ret = <<"1", "0", "2", "3", "K">>)
            /\ (call = <<0, 1>> => ret = <<"1", "M">>)
            /\ (call = <<0, 0, 1>> => ret = <<"1", "G">>)
            /\ (call = <<0, 0, 0, 1>> => ret = <<"1", "T">>)
            /\ (call = <<0, 0, 0, 0, 1>> => ret = <<"1", "P">>)

\* C9 witness: humanize has returned 1P for 1099511627776.
C9_Witness ==
    /\ pc = "ret"
    /\ call = <<0, 0, 0, 0, 1>>
    /\ ret = <<"1", "P">>

(***************************************************************************)
(* Claims about a run, checked under Spec.                                 *)
(***************************************************************************)
\* no server was given: the servers are looked up
Discovered == opt_servers = <<>>

\* lookup_servers has returned the servers of this run
LookedUp == Discovered /\ idx >= 1

\* the processes of vos partinfo spawned so far, in order
IsPartinfo(c) == c.cmd = "partinfo"

PartinfoCalls == SelectSeq(calls, IsPartinfo)

\* the groups of the output of vos listaddrs that have an address
GroupsWithAddress(out) ==
    LET fs == ListaddrsLoop(out, 0, <<>>, <<>>).file_servers
    IN  { fs[k][2] : k \in { j \in 1..Len(fs) : fs[j][2] # <<>> } }

Resolves(address) == address \in DOMAIN dns /\ dns[address] # <<>>

\* the identity the claim gives a group: the hostname of its first address
\* that resolves, or its first address when none does
Identity(addresses) ==
    IF \E k \in 1..Len(addresses) : Resolves(addresses[k])
    THEN dns[addresses[CHOOSE k \in 1..Len(addresses) :
                 /\ Resolves(addresses[k])
                 /\ \A j \in 1..(k - 1) : ~Resolves(addresses[j])]]
    ELSE addresses[1]

\* C3 (as claimed): in discovered mode every UUID group with an address
\* contributes an identity to the servers lookup_servers returns: the
\* hostname of its first address that resolves or, when none resolves, its
\* first raw address.
C3_EveryGroupContributes ==
    LookedUp =>
        { servers[k] : k \in 1..Len(servers) }
            = { Identity(g) : g \in GroupsWithAddress(calls[1].out) }

\* a line that is not blank, does not start with UUID: and is met before any
\* UUID: line
BeforeAnyMarker(out, i) ==
    /\ out[i] # <<>>
    /\ ~StartsWith(out[i], LitUUID)
    /\ \A j \in 1..(i - 1) : ~StartsWith(out[j], LitUUID)

\* the first such line
FirstBeforeAnyMarker(out) ==
    CHOOSE i \in 1..Len(out) :
        /\ BeforeAnyMarker(out, i)
        /\ \A j \in 1..(i - 1) : ~BeforeAnyMarker(out, j)

\* C4: when the output of vos listaddrs has a non-blank line that does not
\* start with UUID: before any UUID: line, lookup_servers raises an error that
\* carries the index (from 0) and the content of the first such line, and the
\* run aborts: no vos partinfo is run and nothing is printed.
C4_LineBeforeMarkerAborts ==
    ( /\ Discovered
      /\ Len(calls) >= 1
      /\ calls[1].state = "ok"
      /\ pc # "lookup"
      /\ \E i \in 1..Len(calls[1].out) : BeforeAnyMarker(calls[1].out, i) )
    => LET out == calls[1].out
           i   == FirstBeforeAnyMarker(out)
       IN  /\ pc = "aborted"
           /\ error.type = "ValueError"
           /\ error.args[2] = i - 1
           /\ error.args[3] = out[i]
           /\ PartinfoCalls = <<>>
           /\ results = <<>>
           /\ stdout = <<>>

\* C4 witness: a run aborted on the second line of the output, an address
\* after a blank line.
C4_Witness ==
    /\ pc = "aborted"
    /\ error.type = "ValueError"
    /\ error.args[2] = 1
    /\ calls[1].out[1] = <<>>
    /\ BeforeAnyMarker(calls[1].out, 2)

\* the last query of the server that call k of PartinfoCalls asks
LastQueryOf(k) ==
    \A j \in (k + 1)..Len(PartinfoCalls) :
        PartinfoCalls[j].server # PartinfoCalls[k].server

\* C5 (as claimed): whichever servers have a failing vos partinfo (the call
\* raises, or the process reports an error), afsfree still queries every
\* other server, a failed server contributes no partition and the records
\* of the servers that succeeded are in the results.
C5_FailedQueryDoesNotAbort ==
    /\ (\E k \in 1..Len(PartinfoCalls) :
           PartinfoCalls[k].state \in {"failed", "raised"})
       => pc # "aborted"
    /\ pc = "done" =>
          /\ Len(PartinfoCalls) = Len(servers)
          /\ \A k \in 1..Len(servers) :
                /\ PartinfoCalls[k].server = servers[k]
                /\ servers[k] \in DictKeys(results)
                /\ LastQueryOf(k) =>
                      IF PartinfoCalls[k].state = "ok"
                      THEN \E tie \in {0, 1} :
                              DictGet(results, servers[k])
                                  = get_partinfo(PartinfoCalls[k].out, tie)
                      ELSE DictGet(results, servers[k]) = <<>>

\* the permutations of 1..n
OrdersOf(n) ==
    { f \in [1..n -> 1..n] : \A i, j \in 1..n : i # j => f[i] # f[j] }

\* the results with the servers accumulated in another order
Reordered(results_) ==
    { [k \in 1..Len(results_) |-> results_[f[k]]] :
        f \in OrdersOf(Len(results_)) }

\* C7 (as claimed): what is printed is the same for any order in which the
\* servers were discovered and queried, in each of the three formats.
C7_OutputIgnoresOrder ==
    pc = "done" =>
        \A r \in Reordered(results) : main_print(format, r) = stdout

\* the processes in flight
InFlight == { k \in 1..Len(calls) : calls[k].state = "running" }

\* C8: at most one external process is in flight at any time; vos listaddrs
\* is run only when no server was given, first, and has ended before the
\* first vos partinfo starts; the servers of the target list get one vos
\* partinfo each, in order, one after the other.
C8_OneProcessAtATime ==
    /\ Cardinality(InFlight) <= 1
    /\ \A k \in InFlight : k = Len(calls)
    /\ \A k \in 1..Len(calls) :
          calls[k].cmd = "listaddrs" => Discovered /\ k = 1
    /\ (Discovered /\ pc # "main") => calls[1].cmd = "listaddrs"
    /\ PartinfoCalls # <<>> =>
          \A k \in 1..Len(calls) :
              calls[k].cmd = "listaddrs" => calls[k].state = "ok"
    /\ Len(PartinfoCalls) <= Len(servers)
    /\ \A k \in 1..Len(PartinfoCalls) : PartinfoCalls[k].server = servers[k]
    /\ pc = "done" =>
          /\ Len(PartinfoCalls) = Len(servers)
          /\ InFlight = {}

\* C8 witness: a run that looked two servers up and queried both has ended.
C8_Witness ==
    /\ pc = "done"
    /\ Discovered
    /\ Len(servers) = 2
    /\ Len(calls) = 3

\* str.split(): the fields of a line between its blanks
RECURSIVE Fields(_)
Fields(line) ==
    LET s == LStrip(line)
    IN  IF s = <<>> THEN <<>>
        ELSE LET n == CHOOSE m \in 1..Len(s) :
                          /\ \A j \in 1..m : ~IsSpace(s[j])
                          /\ (m = Len(s) \/ IsSpace(s[m + 1]))
             IN  <<SubSeq(s, 1, n)>> \o Fields(Drop(s, n))

\* the (host, partition id) pairs of the results
Records ==
    UNION { { <<results[h][1], results[h][2][q][1]>> :
                q \in 1..Len(results[h][2]) } : h \in 1..Len(results) }

\* (host, partition id) < (host, partition id), lexicographically
KeyLess(a, b) ==
    IF a[1] # b[1] THEN StrLess(a[1], b[1]) ELSE StrLess(a[2], b[2])

\* the data rows printed: all the lines but the header of the table
DataRows == IF format = "text" THEN Tail(stdout) ELSE stdout

RowKey(line) == <<Fields(line)[1], Fields(line)[2]>>

\* C10: the table and the plain listing have exactly one data row for each
\* (host, partition id) record of the results, in ascending lexicographic
\* order of (host, partition id); the table has the header row first.
C10_OneSortedRowPerRecord ==
    (pc = "done" /\ format \in {"text", "plain"}) =>
        /\ format = "text" => (stdout # <<>> /\ Fields(stdout[1]) = Header)
        /\ Len(DataRows) = Cardinality(Records)
        /\ { RowKey(DataRows[k]) : k \in 1..Len(DataRows) } = Records
        /\ \A k \in 1..(Len(DataRows) - 1) :
              KeyLess(RowKey(DataRows[k]), RowKey(DataRows[k + 1]))

\* C10 witness: a table of a header and four rows has been printed from
\* results that were not accumulated in sorted order.
C10_Witness ==
    /\ pc = "done"
    /\ format = "text"
    /\ Len(stdout) = 5
    /\ flatten(results) # SortLoop(flatten(results), <<>>)

====
